---- MODULE Spec2Model ----
(***************************************************************************)
(* A model of verus_client.py: the VerusClient constructor, the JSON-RPC   *)
(* transform (_rpc_request), the result normalizer (_handle_response with  *)
(* VerusResponseData) and the method catalogue.                            *)
(*                                                                         *)
(* Text that the code takes apart or puts together (the network name, the  *)
(* host, the base URL) is a sequence of one-character strings; text the    *)
(* code only passes along is a TLA+ string.  A Python/JSON value is a      *)
(* record [t |-> <runtime type>, v |-> <payload>].                         *)
(***************************************************************************)
EXTENDS Integers, Sequences, FiniteSets, TLC

VARIABLES
    phase,      \* "new" before VerusClient(...), then "ready" or "failed"
    ctorArgs,   \* the arguments VerusClient(...) was called with
    ctorExc,    \* the exception __init__ raised, "none" if it returned
    client,     \* the attributes of the client object (meaningful when ready)
    ncalls,     \* catalogue calls made so far on the client
    sent,       \* destination (url, auth) of every HTTP POST made so far
    call,       \* the last catalogue call: method name and arguments
    reply,      \* what the HTTP layer answered to the last call
    posted,     \* the HTTP POSTs issued by the last call, in order
    outcome     \* how the last call ended: returned a value or raised

vars == <<phase, ctorArgs, ctorExc, client, ncalls, sent, call, reply, posted, outcome>>

-----------------------------------------------------------------------------
(* Bounds of the model *)

\* catalogue calls made on one client
MaxCalls == 2
\* keys of a JSON object handed to the normalizer
MaxKeys == 2
\* elements of a JSON array handed to the normalizer
MaxArrLen == 1

-----------------------------------------------------------------------------
(* Text *)

LowerAlpha == <<"a","b","c","d","e","f","g","h","i","j","k","l","m",
                "n","o","p","q","r","s","t","u","v","w","x","y","z">>
UpperAlpha == <<"A","B","C","D","E","F","G","H","I","J","K","L","M",
                "N","O","P","Q","R","S","T","U","V","W","X","Y","Z">>

\* str.lower() on one character: an upper-case letter becomes its lower-case
\* letter, anything else is kept
LowerChar(c) ==
    IF \E i \in DOMAIN UpperAlpha : UpperAlpha[i] = c
    THEN LowerAlpha[CHOOSE i \in DOMAIN UpperAlpha : UpperAlpha[i] = c]
    ELSE c

\* a constructor that compares the network name as it was given
Lower_asgiven(s) == s

\* str.lower(), character by character
Lower(s) == [i \in 1..Len(s) |-> LowerChar(s[i])]

Digits == <<"0","1","2","3","4","5","6","7","8","9">>

\* the decimal text of a non-negative int, as an f-string formats it
RECURSIVE Decimal(_)
Decimal(n) ==
    IF n < 10 THEN <<Digits[n + 1]>>
    ELSE Decimal(n \div 10) \o <<Digits[(n % 10) + 1]>>

-----------------------------------------------------------------------------
(* VerusClient.__init__ *)

MainnetPort == 27486
TestnetPort == 18843

\* the attributes before __init__ has assigned any
NoClient ==
    [host |-> <<>>, network |-> <<>>, rpc_user |-> "", rpc_password |-> "",
     port |-> 0, native_currency |-> "", url |-> <<>>]

NoArgs == [host |-> <<>>, network |-> <<>>, rpc_user |-> "", rpc_password |-> ""]

\* every way of writing a word in upper and lower case
CaseVariants(w) ==
    {[i \in 1..Len(w) |-> IF i \in U THEN UpperAlpha[CHOOSE j \in DOMAIN LowerAlpha :
                                                          LowerAlpha[j] = w[i]]
                                     ELSE w[i]] : U \in SUBSET (1..Len(w))}

\* constructor arguments tried
Hosts == {<<"1","2","7",".","0",".","0",".","1">>, <<"n","o","d","e">>}
Users == {"username", "alice"}
Passwords == {"password", "s3cret"}
Networks ==
    CaseVariants(<<"m","a","i","n","n","e","t">>)
      \cup CaseVariants(<<"t","e","s","t","n","e","t">>)
      \cup { <<>>, <<"m","a","i","n">>, <<"r","e","g","t","e","s","t">>,
             <<"m","a","i","n","n","e","t"," ">>, <<"t","e","s","t","n","e","t","1">>,
             <<"M","A","I","N","_","N","E","T">>, <<"t","e","s","t","n","e","t","s">> }

\* self.url = f"http://{self.host}:{self.port}/"
BuildUrl(host, port) ==
    <<"h","t","t","p",":","/","/">> \o host \o <<":">> \o Decimal(port) \o <<"/">>

\* a lookup table with the two ports exchanged
ResolveNetwork_swapped(network) ==
    IF network = <<"m","a","i","n","n","e","t">>
    THEN [exc |-> "none", port |-> TestnetPort, native_currency |-> "vrsc"]
    ELSE IF network = <<"t","e","s","t","n","e","t">>
    THEN [exc |-> "none", port |-> MainnetPort, native_currency |-> "vrsctest"]
    ELSE [exc |-> "ValueError", port |-> 0, native_currency |-> ""]

\* the network branch of __init__: the port and the native currency of a
\* lower-cased network name, or the ValueError
ResolveNetwork(network) ==
    IF network = <<"m","a","i","n","n","e","t">>
    THEN [exc |-> "none", port |-> MainnetPort, native_currency |-> "vrsc"]
    ELSE IF network = <<"t","e","s","t","n","e","t">>
    THEN [exc |-> "none", port |-> TestnetPort, native_currency |-> "vrsctest"]
    ELSE [exc |-> "ValueError", port |-> 0, native_currency |-> ""]

\* __init__(host, network, rpc_user, rpc_password): the exception it raises
\* ("none" if it returns) and the attributes it has set on self
VerusClientInit(host, network, rpc_user, rpc_password) ==
    LET net == Lower(network)
        r   == ResolveNetwork(net)
        set == [NoClient EXCEPT !.host = host, !.network = net,
                                !.rpc_user = rpc_user, !.rpc_password = rpc_password]
    IN  IF r.exc # "none"
        THEN [exc |-> r.exc, self |-> set]
        ELSE [exc  |-> "none",
              self |-> [host |-> host, network |-> net,
                        rpc_user |-> rpc_user, rpc_password |-> rpc_password,
                        port |-> r.port, native_currency |-> r.native_currency,
                        url |-> BuildUrl(host, r.port)]]

\* client = VerusClient(host, network, rpc_user, rpc_password): the caller's
\* name is bound only if __init__ returns
Construct ==
    /\ phase = "new"
    /\ \E host \in Hosts, network \in Networks, u \in Users, p \in Passwords :
          LET r == VerusClientInit(host, network, u, p)
          IN  /\ ctorArgs' = [host |-> host, network |-> network,
                              rpc_user |-> u, rpc_password |-> p]
              /\ ctorExc' = r.exc
              /\ phase' = IF r.exc = "none" THEN "ready" ELSE "failed"
              /\ client' = IF r.exc = "none" THEN r.self ELSE client
    /\ UNCHANGED <<ncalls, sent, call, reply, posted, outcome>>

-----------------------------------------------------------------------------
(* Python values: what json decodes to, and what the methods are given *)

None      == [t |-> "NoneType", v |-> "None"]
Num(n)    == [t |-> "int",  v |-> n]
Str(s)    == [t |-> "str",  v |-> s]
Bool(b)   == [t |-> "bool", v |-> b]
List(s)   == [t |-> "list", v |-> s]
Dict(f)   == [t |-> "dict", v |-> f]

\* a dict literal with one, two and three items
D1(k, x) == Dict([i \in {k} |-> x])
D2(k1, x1, k2, x2) == Dict([i \in {k1, k2} |-> IF i = k1 THEN x1 ELSE x2])
D3(k1, x1, k2, x2, k3, x3) ==
    Dict([i \in {k1, k2, k3} |-> IF i = k1 THEN x1 ELSE IF i = k2 THEN x2 ELSE x3])

\* d.get(k): the value under k, None when d has no k
DictGet(d, k) == IF k \in DOMAIN d.v THEN d.v[k] ELSE None

\* bool(x), as an if statement tests a value
Truthy(x) ==
    CASE x.t = "NoneType" -> FALSE
      [] x.t = "bool"     -> x.v
      [] x.t = "int"      -> x.v # 0
      [] x.t = "str"      -> x.v # ""
      [] x.t = "list"     -> x.v # <<>>
      [] x.t = "dict"     -> DOMAIN x.v # {}
      [] OTHER            -> TRUE

\* how a call ends
Returned(x) == [kind |-> "returned", val |-> x]
Raised(e, info) == [kind |-> "raised", val |-> [exc |-> e, info |-> info]]
NoOutcome == [kind |-> "none", val |-> None]

-----------------------------------------------------------------------------
(* VerusResponseData and _handle_response *)

\* VerusResponseData(**entries): binding the keywords to __init__(self,
\* **entries) fails for a keyword named self; otherwise __dict__ takes every
\* entry and response is then set to None
VerusResponseDataInit(entries) ==
    IF "self" \in DOMAIN entries
    THEN [exc |-> "TypeError", attrs |-> <<>>]
    ELSE [exc   |-> "none",
          attrs |-> [k \in DOMAIN entries \cup {"response"} |->
                        IF k = "response" THEN None ELSE entries[k]]]

\* data.response = res
SetResponse(attrs, res) == [attrs EXCEPT !["response"] = res]

\* isinstance(res, dict)
IsDict(res) == res.t = "dict"

\* a normalizer that wraps every result, object or not, in a record
HandleResponse_wrapall(response) ==
    LET res == DictGet(response, "result")
    IN  Returned([t |-> "VerusResponseData", v |-> [k \in {"response"} |-> res]])

\* _handle_response(response)
HandleResponse(response) ==
    LET res == DictGet(response, "result")
    IN  IF IsDict(res)
        THEN LET data == VerusResponseDataInit(res.v)
             IN  IF data.exc # "none"
                 THEN Raised(data.exc, "__init__() got multiple values for argument 'self'")
                 ELSE Returned([t |-> "VerusResponseData",
                                v |-> SetResponse(data.attrs, res)])
        ELSE Returned(res)

\* JSON values handed to the normalizer
Scalars == {None, Num(42), Str("x"), Bool(TRUE)}
Arrays  == {List(s) : s \in UNION {[1..n -> Scalars] : n \in 0..MaxArrLen}}
Keys    == {"a", "b", "self", "response"}
Leaves  == Scalars \cup {List(<<Str("x"), Str("y")>>), D1("a", Num(1))}
Objects ==
    {Dict(f) : f \in UNION {[S -> Leaves] :
                              S \in {T \in SUBSET Keys : Cardinality(T) <= MaxKeys}}}
JsonValues == Scalars \cup Arrays \cup Objects

\* decoded replies as _rpc_request returns them: error is null, result is any
\* JSON value or is missing
Envelope(result) == D3("result", result, "error", None, "id", Str("python-client"))
Envelopes ==
    {Envelope(x) : x \in JsonValues}
      \cup {D2("error", None, "id", Str("python-client"))}

\* _handle_response applied to one decoded reply
Normalize ==
    /\ phase = "new"
    /\ call.method = "_handle_response"
    /\ outcome.kind = "none"
    /\ outcome' = HandleResponse(call.args[1])
    /\ UNCHANGED <<phase, ctorArgs, ctorExc, client, ncalls, sent, call, reply, posted>>

-----------------------------------------------------------------------------
(* _rpc_request *)

\* a response body that is not JSON text
NotJson == [t |-> "notjson", v |-> "<html>"]

\* no HTTP exchange took place
NoReply == [conn |-> "none", status |-> 0, body |-> NotJson]

\* what the HTTP layer can answer: the connection fails, or a final response
\* arrives with a status and a body; body is the value the body text decodes
\* to, or NotJson
ConnectionFailed == [conn |-> "error", status |-> 0, body |-> NotJson]
HttpResponse(status, body) == [conn |-> "ok", status |-> status, body |-> body]

\* a request authenticated with the constructor's default credentials
RequestDest_defaults(self) == [url |-> self.url, auth |-> <<"username", "password">>]

\* where a request goes: requests.post(self.url, auth=(self.rpc_user,
\* self.rpc_password), ...)
RequestDest(self) == [url |-> self.url, auth |-> <<self.rpc_user, self.rpc_password>>]

\* the request _rpc_request posts; data stands for the JSON text of the payload
BuildRequest(self, method, params) ==
    [dest    |-> RequestDest(self),
     data    |-> [jsonrpc |-> "1.0", id |-> "python-client",
                  method |-> method, params |-> params],
     headers |-> "content-type: text/plain"]

\* response.raise_for_status() raises HTTPError for a 4xx or 5xx status and
\* for no other
RaisesForStatus(status) == 400 <= status /\ status < 600

\* an error check by truth value: if result.get("error")
HasError_truthy(result) == Truthy(DictGet(result, "error"))

\* result.get("error") is not None
HasError(result) == DictGet(result, "error") # None

\* the message of the exception raised for an error reply
RpcErrorMessage(error) == [prefix |-> "RPC Error: ", payload |-> error]

\* _rpc_request(method, params), answered by rep: the requests posted and how
\* it ends (returning the decoded reply, or raising)
RpcRequest(self, method, params, rep) ==
    LET req == BuildRequest(self, method, params)
        end(o) == [posted |-> <<req>>, out |-> o]
    IN  IF rep.conn = "error"
        THEN end(Raised("ConnectionError", "connection failed"))
        ELSE IF RaisesForStatus(rep.status)
        THEN end(Raised("HTTPError", rep.status))
        ELSE IF rep.body.t = "notjson"
        THEN end(Raised("JSONDecodeError", "Expecting value"))
        ELSE IF ~IsDict(rep.body)
        THEN end(Raised("AttributeError", "object has no attribute 'get'"))
        ELSE IF HasError(rep.body)
        THEN end(Raised("Exception", RpcErrorMessage(DictGet(rep.body, "error"))))
        ELSE end(Returned(rep.body))

\* response = self._rpc_request(method, params)
\* return self._handle_response(response)
Rpc(self, method, params, rep) ==
    LET r == RpcRequest(self, method, params, rep)
    IN  IF r.out.kind = "raised"
        THEN r
        ELSE [posted |-> r.posted, out |-> HandleResponse(r.out.val)]

-----------------------------------------------------------------------------
(* The method catalogue *)

\* an optional argument the caller leaves out takes the parameter's default
Omitted == [t |-> "omitted", v |-> "-"]
Default(x, d) == IF x = Omitted THEN d ELSE x

\* responses of the daemon and of what stands between it and the client
ErrorObject == D2("code", Num(-1), "message", Str("bad"))
ErrorReply(error) == D3("result", None, "error", error, "id", Str("python-client"))
Bodies ==
    { NotJson,
      List(<<>>),
      Envelope(Str("000abc")),
      Envelope(Num(42)),
      Envelope(None),
      Envelope(List(<<Str("x"), Str("y")>>)),
      Envelope(D2("a", Num(1), "b", Str("x"))),
      Envelope(D1("self", Num(1))),
      Envelope(D1("response", Num(1))),
      D2("error", None, "id", Str("python-client")),
      D1("result", Str("000abc")),
      ErrorReply(ErrorObject),
      ErrorReply(Num(0)),
      D2("result", D1("a", Num(1)), "error", Str("bad")) }
Replies ==
    {ConnectionFailed}
      \cup {HttpResponse(200, b) : b \in Bodies}
      \cup {HttpResponse(s, b) : s \in {304, 404, 500},
                                 b \in {NotJson, ErrorReply(ErrorObject),
                                        Envelope(Str("000abc"))}}

\* arguments the methods are called with
Currencies == {Str("vrsc")}
Heights    == {Omitted, Num(10)}

\* one catalogue call on the client: what it was, what was posted, how it ended
Do(name, args, r, rep) ==
    /\ phase = "ready"
    /\ ncalls < MaxCalls
    /\ ncalls' = ncalls + 1
    /\ call' = [method |-> name, args |-> args]
    /\ reply' = IF r.posted = <<>> THEN NoReply ELSE rep
    /\ posted' = r.posted
    /\ sent' = sent \o [i \in 1..Len(r.posted) |-> r.posted[i].dest]
    /\ outcome' = r.out
    /\ UNCHANGED <<phase, ctorArgs, ctorExc, client>>

getinfo ==
    \E rep \in Replies : Do("getinfo", <<>>, Rpc(client, "getinfo", <<>>, rep), rep)

getwalletinfo ==
    \E rep \in Replies :
        Do("getwalletinfo", <<>>, Rpc(client, "getwalletinfo", <<>>, rep), rep)

\* params = [command] if command is not None else []
help_params(command) == IF command # None THEN <<command>> ELSE <<>>

help ==
    \E rep \in Replies, c \in {Omitted, Str("getinfo")} :
        LET command == Default(c, None)
        IN  Do("help", <<c>>, Rpc(client, "help", help_params(command), rep), rep)

stop ==
    \E rep \in Replies : Do("stop", <<>>, Rpc(client, "stop", <<>>, rep), rep)

getnewaddress ==
    \E rep \in Replies :
        Do("getnewaddress", <<>>, Rpc(client, "getnewaddress", <<>>, rep), rep)

validateaddress ==
    \E rep \in Replies, address \in {Str("RAddr")} :
        Do("validateaddress", <<address>>,
           Rpc(client, "validateaddress", <<address>>, rep), rep)

\* the entry sending the method name of its neighbour, getblockhash
getbestblockhash_othername ==
    \E rep \in Replies :
        Do("getbestblockhash", <<>>, Rpc(client, "getblockhash", <<>>, rep), rep)

getbestblockhash ==
    \E rep \in Replies :
        Do("getbestblockhash", <<>>, Rpc(client, "getbestblockhash", <<>>, rep), rep)

\* the two positional parameters in the wrong order
getblock_params_swapped(hash_or_height, verbosity) == <<verbosity, hash_or_height>>

\* [hash_or_height, verbosity], verbosity=1 by default
getblock_params(hash_or_height, verbosity) == <<hash_or_height, verbosity>>

getblock ==
    \E rep \in Replies, h \in {Str("000abc"), Num(7)}, v \in {Omitted, Num(0), Num(2)} :
        LET verbosity == Default(v, Num(1))
        IN  Do("getblock", <<h, v>>,
               Rpc(client, "getblock", getblock_params(h, verbosity), rep), rep)

getblockcount ==
    \E rep \in Replies :
        Do("getblockcount", <<>>, Rpc(client, "getblockcount", <<>>, rep), rep)

getblockhash ==
    \E rep \in Replies, index \in {Num(7)} :
        Do("getblockhash", <<index>>, Rpc(client, "getblockhash", <<index>>, rep), rep)

getgenerate ==
    \E rep \in Replies :
        Do("getgenerate", <<>>, Rpc(client, "getgenerate", <<>>, rep), rep)

\* params = [generate]; genproclimit is appended if it is not None
setgenerate_params(generate, genproclimit) ==
    IF genproclimit # None THEN <<generate, genproclimit>> ELSE <<generate>>

setgenerate ==
    \E rep \in Replies, generate \in {Bool(TRUE)}, g \in {Omitted, Num(0)} :
        LET genproclimit == Default(g, None)
        IN  Do("setgenerate", <<generate, g>>,
               Rpc(client, "setgenerate", setgenerate_params(generate, genproclimit), rep),
               rep)

getmininginfo ==
    \E rep \in Replies :
        Do("getmininginfo", <<>>, Rpc(client, "getmininginfo", <<>>, rep), rep)

\* param_obj, with via added only if via is truthy
estimateconversion_params(amount, from_currency, to_currency, via) ==
    IF Truthy(via)
    THEN <<Dict([k \in {"currency", "convertto", "amount", "via"} |->
                  CASE k = "currency"  -> from_currency
                    [] k = "convertto" -> to_currency
                    [] k = "amount"    -> amount
                    [] k = "via"       -> via])>>
    ELSE <<D3("currency", from_currency, "convertto", to_currency, "amount", amount)>>

estimateconversion ==
    \E rep \in Replies, amount \in {Num(1)}, from \in Currencies, to \in {Str("bridge")},
       w \in {Omitted, Str(""), Str("bridge")} :
        LET via == Default(w, None)
        IN  Do("estimateconversion", <<amount, from, to, w>>,
               Rpc(client, "estimateconversion",
                   estimateconversion_params(amount, from, to, via), rep), rep)

getcurrency ==
    \E rep \in Replies, currency \in Currencies :
        Do("getcurrency", <<currency>>, Rpc(client, "getcurrency", <<currency>>, rep), rep)

\* no "" put in the place of a missing n
getcurrencystate_params_nosentinel(currency, n, conversiondatacurrency) ==
    <<currency>>
      \o (IF n # None THEN <<n>> ELSE <<>>)
      \o (IF conversiondatacurrency # None THEN <<conversiondatacurrency>> ELSE <<>>)

\* params = [currency], then n or "" in its place, then conversiondatacurrency
\* if it is not None
getcurrencystate_params(currency, n, conversiondatacurrency) ==
    <<currency>>
      \o (IF n # None THEN <<n>> ELSE <<Str("")>>)
      \o (IF conversiondatacurrency # None THEN <<conversiondatacurrency>> ELSE <<>>)

getcurrencystate ==
    \E rep \in Replies, currency \in Currencies, a \in {Omitted, Num(100)},
       b \in {Omitted, Str("bridge")} :
        LET n == Default(a, None)
            conversiondatacurrency == Default(b, None)
        IN  Do("getcurrencystate", <<currency, a, b>>,
               Rpc(client, "getcurrencystate",
                   getcurrencystate_params(currency, n, conversiondatacurrency), rep), rep)

\* the list getimports and getexports build in params: [currency], then
\* heightstart or "" in its place, then heightend if it is not None
height_params(currency, heightstart, heightend) ==
    <<currency>>
      \o (IF heightstart # None THEN <<heightstart>> ELSE <<Str("")>>)
      \o (IF heightend # None THEN <<heightend>> ELSE <<>>)

\* what getimports passes to _rpc_request: [currency], not the params it built
getimports_params(currency, heightstart, heightend) == <<currency>>

getimports ==
    \E rep \in Replies, currency \in Currencies, a \in Heights, b \in Heights :
        LET heightstart == Default(a, None)
            heightend == Default(b, None)
        IN  Do("getimports", <<currency, a, b>>,
               Rpc(client, "getimports",
                   getimports_params(currency, heightstart, heightend), rep), rep)

\* getexports(curency, heightstart, heightend): its first statement,
\* params = [currency], reads a name that is bound nowhere (the parameter is
\* spelled curency) and raises NameError; nothing after it runs
getexports_call(self, curency, heightstart, heightend, rep) ==
    [posted |-> <<>>, out |-> Raised("NameError", "name 'currency' is not defined")]

getexports ==
    \E rep \in Replies, curency \in Currencies, a \in Heights, b \in Heights :
        LET heightstart == Default(a, None)
            heightend == Default(b, None)
        IN  Do("getexports", <<curency, a, b>>,
               getexports_call(client, curency, heightstart, heightend, rep), rep)

\* verbose_flag = 1 if verbose else ""
getrawtransaction_params(txid, verbose) ==
    <<txid, IF Truthy(verbose) THEN Num(1) ELSE Str("")>>

getrawtransaction ==
    \E rep \in Replies, txid \in {Str("ab12")}, v \in {Omitted, Bool(FALSE)} :
        LET verbose == Default(v, Bool(TRUE))
        IN  Do("getrawtransaction", <<txid, v>>,
               Rpc(client, "getrawtransaction", getrawtransaction_params(txid, verbose), rep),
               rep)

getidentity ==
    \E rep \in Replies, identity \in {Str("alice@")} :
        Do("getidentity", <<identity>>, Rpc(client, "getidentity", <<identity>>, rep), rep)

-----------------------------------------------------------------------------
(* Specifications *)

NoCall == [method |-> "", args |-> <<>>]

\* before the constructor is called
InitNew ==
    /\ phase = "new"
    /\ ctorArgs = NoArgs
    /\ ctorExc = "none"
    /\ client = NoClient
    /\ ncalls = 0
    /\ sent = <<>>
    /\ call = NoCall
    /\ reply = NoReply
    /\ posted = <<>>
    /\ outcome = NoOutcome

NextInit == Construct

\* the constructor alone, over every network name tried
SpecInit == InitNew /\ [][NextInit]_vars

\* a decoded reply about to be normalized
InitNorm ==
    /\ phase = "new"
    /\ ctorArgs = NoArgs
    /\ ctorExc = "none"
    /\ client = NoClient
    /\ ncalls = 0
    /\ sent = <<>>
    /\ call \in {[method |-> "_handle_response", args |-> <<e>>] : e \in Envelopes}
    /\ reply = NoReply
    /\ posted = <<>>
    /\ outcome = NoOutcome

NextNorm == Normalize

\* the normalizer alone, over every JSON value tried
SpecNorm == InitNorm /\ [][NextNorm]_vars

\* the clients the catalogue is exercised on
InitClients ==
    { [host |-> <<"1","2","7",".","0",".","0",".","1">>,
       network |-> <<"m","a","i","n","n","e","t">>,
       rpc_user |-> "username", rpc_password |-> "password"],
      [host |-> <<"n","o","d","e">>,
       network |-> <<"T","e","s","t","N","e","t">>,
       rpc_user |-> "alice", rpc_password |-> "s3cret"] }

\* a client as the constructor leaves it
Init ==
    /\ phase = "ready"
    /\ ctorArgs \in InitClients
    /\ ctorExc = "none"
    /\ client = VerusClientInit(ctorArgs.host, ctorArgs.network,
                                ctorArgs.rpc_user, ctorArgs.rpc_password).self
    /\ ncalls = 0
    /\ sent = <<>>
    /\ call = NoCall
    /\ reply = NoReply
    /\ posted = <<>>
    /\ outcome = NoOutcome

Next ==
    \/ getinfo
    \/ getwalletinfo
    \/ help
    \/ stop
    \/ getnewaddress
    \/ validateaddress
    \/ getbestblockhash
    \/ getblock
    \/ getblockcount
    \/ getblockhash
    \/ getgenerate
    \/ setgenerate
    \/ getmininginfo
    \/ estimateconversion
    \/ getcurrency
    \/ getcurrencystate
    \/ getimports
    \/ getexports
    \/ getrawtransaction
    \/ getidentity

\* catalogue calls, one after another, on a constructed client
Spec == Init /\ [][Next]_vars

-----------------------------------------------------------------------------
(* Properties of the constructor, under SpecInit *)

\* two texts that differ at most in the case of their letters
SameIgnoringCase(a, b) ==
    /\ Len(a) = Len(b)
    /\ \A i \in 1..Len(a) :
          \/ a[i] = b[i]
          \/ \E j \in DOMAIN LowerAlpha : {a[i], b[i]} = {LowerAlpha[j], UpperAlpha[j]}

Recognized(network) ==
    \/ SameIgnoringCase(network, <<"m","a","i","n","n","e","t">>)
    \/ SameIgnoringCase(network, <<"t","e","s","t","n","e","t">>)

\* C6: a network name that is neither "mainnet" nor "testnet", compared
\* without regard to case, makes the constructor raise ValueError and no
\* client is bound; every case variant of the two names constructs a client.
C6_NetworkChecked ==
    phase # "new" =>
        IF Recognized(ctorArgs.network)
        THEN phase = "ready" /\ ctorExc = "none"
        ELSE phase = "failed" /\ ctorExc = "ValueError" /\ client = NoClient

\* C6's case: construction with an unknown network name has failed
C6_Witness ==
    /\ phase = "failed"
    /\ ctorExc = "ValueError"
    /\ ctorArgs.network = <<"M","A","I","N","_","N","E","T">>

\* C7: the derived configuration is decided by (host, network): mainnet gives
\* port 27486, symbol "vrsc" and URL http://{host}:27486/; testnet gives port
\* 18843, symbol "vrsctest" and URL http://{host}:18843/.
C7_DerivedConfiguration ==
    phase = "ready" =>
        /\ client.host = ctorArgs.host
        /\ client.rpc_user = ctorArgs.rpc_user
        /\ client.rpc_password = ctorArgs.rpc_password
        /\ SameIgnoringCase(client.network, ctorArgs.network)
        /\ \/ /\ client.network = <<"m","a","i","n","n","e","t">>
              /\ client.port = 27486
              /\ client.native_currency = "vrsc"
              /\ client.url = <<"h","t","t","p",":","/","/">> \o client.host
                                \o <<":","2","7","4","8","6","/">>
           \/ /\ client.network = <<"t","e","s","t","n","e","t">>
              /\ client.port = 18843
              /\ client.native_currency = "vrsctest"
              /\ client.url = <<"h","t","t","p",":","/","/">> \o client.host
                                \o <<":","1","8","8","4","3","/">>

\* C7's case: a testnet client on host "node"
C7_Witness ==
    /\ phase = "ready"
    /\ ctorArgs.network = <<"T","E","S","T","n","e","t">>
    /\ client.url = <<"h","t","t","p",":","/","/","n","o","d","e",":",
                      "1","8","8","4","3","/">>

-----------------------------------------------------------------------------
(* Properties of the normalizer, under SpecNorm *)

\* the decoded reply _handle_response was given, and its result
GivenResponse == call.args[1]
HasResult == "result" \in DOMAIN GivenResponse.v
GivenResult == GivenResponse.v["result"]

\* C2: for a result that is a JSON object, the record returned has every key
\* of the object as an attribute with the object's value, and its response
\* attribute is the whole object; for every key name, "response" included.
\* (Stated of the record returned; that one is returned at all is C3.)
C2_RecordHasEveryKey ==
    (outcome.kind = "returned" /\ HasResult /\ GivenResult.t = "dict") =>
        /\ outcome.val.t = "VerusResponseData"
        /\ outcome.val.v["response"] = GivenResult
        /\ \A k \in DOMAIN GivenResult.v :
              k \in DOMAIN outcome.val.v /\ outcome.val.v[k] = GivenResult.v[k]

\* C3: _handle_response returns a value for every JSON value as result; it
\* never raises.
C3_NormalizeIsTotal ==
    outcome.kind # "none" => outcome.kind = "returned"

\* C9: a result that is not a JSON object is returned as it is, and
\* normalizing the returned value again gives the same value.
C9_NonObjectUnchanged ==
    (outcome.kind # "none" /\ HasResult /\ GivenResult.t # "dict") =>
        /\ outcome = Returned(GivenResult)
        /\ HandleResponse(Envelope(outcome.val)) = outcome

\* C9's case: an array came back as the array
C9_Witness ==
    /\ HasResult
    /\ GivenResult = List(<<Str("x")>>)
    /\ outcome.kind = "returned"
    /\ outcome.val.t = "list"

-----------------------------------------------------------------------------
(* Properties of the calls, under Spec *)

\* the HTTP exchange of the last call got as far as a decoded JSON object
DecodedReply ==
    /\ reply.conn = "ok"
    /\ ~(reply.status \in 400..599)
    /\ reply.body.t = "dict"

\* C1: a decoded reply whose error is not null makes the call raise the RPC
\* error, which carries the reply's error; the call returns nothing.
C1_ErrorReplyRaises ==
    (DecodedReply /\ "error" \in DOMAIN reply.body.v /\ reply.body.v["error"] # None) =>
        /\ outcome.kind = "raised"
        /\ outcome.val.exc = "Exception"
        /\ outcome.val.info.prefix = "RPC Error: "
        /\ outcome.val.info.payload = reply.body.v["error"]

\* C1's case: getinfo was answered 200 with {"code":-1,"message":"bad"}
C1_Witness ==
    /\ call.method = "getinfo"
    /\ reply = HttpResponse(200, ErrorReply(ErrorObject))
    /\ outcome.kind = "raised"

\* C4: every catalogue call issues exactly one POST, carrying the RPC method
\* name of the entry called.
C4_ExactlyOnePost ==
    outcome.kind # "none" =>
        /\ Len(posted) = 1
        /\ posted[1].data.method = call.method

\* the documented positional list of getimports and getexports
DocumentedHeightParams(args) ==
    <<args[1]>>
      \o (IF args[2] = Omitted THEN <<Str("")>> ELSE <<args[2]>>)
      \o (IF args[3] = Omitted THEN <<>> ELSE <<args[3]>>)

\* C5: getimports and getexports send currency, then heightstart (or "" when
\* it is left out), then heightend when it is given.
C5_HeightBoundsPassed ==
    call.method \in {"getimports", "getexports"} =>
        /\ Len(posted) = 1
        /\ posted[1].data.params = DocumentedHeightParams(call.args)

\* exceptions of the HTTP layer
TransportErrors == {"ConnectionError", "HTTPError", "JSONDecodeError"}

\* C8: an exchange that ends with a connection error or a status outside 2xx
\* makes the call raise the transport error after one attempt, whatever the
\* body is.
C8_NonSuccessIsTransportError ==
    (reply.conn = "error" \/ (reply.conn = "ok" /\ ~(reply.status \in 200..299))) =>
        /\ Len(posted) = 1
        /\ outcome.kind = "raised"
        /\ outcome.val.exc \in TransportErrors

\* C10: no call changes the client's configuration, and every request, of
\* this call and of the calls before it, goes to the client's base URL with
\* the client's credentials.
C10_ConfigurationKept ==
    [][ /\ client' = client
        /\ \A i \in DOMAIN sent' :
              /\ sent'[i].url = client.url
              /\ sent'[i].auth = <<client.rpc_user, client.rpc_password>> ]_vars

\* C10's case: two calls were made on the client named alice, both posted,
\* and the second failed
C10_Witness ==
    /\ ncalls >= 2
    /\ Len(sent) >= 2
    /\ client.rpc_user = "alice"
    /\ outcome.kind = "raised"

\* C11: getblock(h, v) posts method "getblock" with params [h, v], in that
\* order; with verbosity left out the params are [h, 1].
C11_GetblockParams ==
    call.method = "getblock" =>
        /\ Len(posted) = 1
        /\ posted[1].data.method = "getblock"
        /\ posted[1].data.params =
              <<call.args[1], IF call.args[2] = Omitted THEN Num(1) ELSE call.args[2]>>

\* C11's case: getblock("000abc", 2) posted ["000abc", 2]
C11_Witness ==
    /\ call.method = "getblock"
    /\ call.args = <<Str("000abc"), Num(2)>>
    /\ Len(posted) = 1
    /\ posted[1].data.params = <<Str("000abc"), Num(2)>>

\* C12: getbestblockhash() posts method "getbestblockhash" with params [],
\* and a reply with error null and a string result r makes it return r.
C12_GetbestblockhashEndToEnd ==
    call.method = "getbestblockhash" =>
        /\ Len(posted) = 1
        /\ posted[1].data.method = "getbestblockhash"
        /\ posted[1].data.params = <<>>
        /\ (/\ DecodedReply
            /\ "error" \in DOMAIN reply.body.v
            /\ reply.body.v["error"] = None
            /\ "result" \in DOMAIN reply.body.v
            /\ reply.body.v["result"].t = "str")
              => outcome = [kind |-> "returned", val |-> reply.body.v["result"]]

\* C12's case: the reply {"result": "000abc", "error": null, "id": ...}
C12_Witness ==
    /\ call.method = "getbestblockhash"
    /\ reply = HttpResponse(200, Envelope(Str("000abc")))
    /\ outcome.kind = "returned"
    /\ outcome.val = Str("000abc")

\* C13: a 2xx reply whose error is null or missing makes the call return, and
\* never raise; a result that is null or missing is returned as null, and any
\* other result that is not an object as it is.
C13_NullErrorReturns ==
    (/\ reply.conn = "ok"
     /\ reply.status \in 200..299
     /\ reply.body.t = "dict"
     /\ ("error" \in DOMAIN reply.body.v => reply.body.v["error"] = None)) =>
        /\ outcome.kind = "returned"
        /\ "result" \notin DOMAIN reply.body.v => outcome.val = None
        /\ ("result" \in DOMAIN reply.body.v /\ reply.body.v["result"].t # "dict")
              => outcome.val = reply.body.v["result"]

\* C14: getcurrencystate posts currency first, then n or "" when n is left
\* out, and conversiondatacurrency, when given, third and never second; the
\* params have two or three elements.
C14_GetcurrencystateAligned ==
    call.method = "getcurrencystate" =>
        /\ Len(posted) = 1
        /\ LET params == posted[1].data.params
           IN  /\ Len(params) \in {2, 3}
               /\ params[1] = call.args[1]
               /\ params[2] = IF call.args[2] = Omitted THEN Str("") ELSE call.args[2]
               /\ IF call.args[3] = Omitted
                  THEN Len(params) = 2
                  ELSE Len(params) = 3 /\ params[3] = call.args[3]

\* C14's case: n left out, conversiondatacurrency given
C14_Witness ==
    /\ call.method = "getcurrencystate"
    /\ call.args = <<Str("vrsc"), Omitted, Str("bridge")>>
    /\ Len(posted) = 1
    /\ posted[1].data.params = <<Str("vrsc"), Str(""), Str("bridge")>>

=============================================================================
